---- MODULE Spec2Model ----
(***************************************************************************)
(* Model of the collection orchestrator of awsinv (package orchestrator):  *)
(* Collect = prepareServices, prepareRegions, createWorkItems,             *)
(* executeCollection (one goroutine per work item behind a buffered-channel *)
(* semaphore, a mutex-guarded result slice and a WaitGroup) and             *)
(* aggregateResults.                                                        *)
(***************************************************************************)
EXTENDS Integers, Sequences, FiniteSets, TLC

(***************************************************************************)
(* Bounds of the model.                                                     *)
(***************************************************************************)
\* Longest Services / Regions list a caller passes in CollectOptions.
MaxServices == 2
MaxRegions == 2
\* Most work items a run of the executor is explored with.
MaxItems == 3
\* Largest value of CollectOptions.Parallel (the smallest is -1).
MaxParallel == 2

(***************************************************************************)
(* Generic helpers.                                                         *)
(***************************************************************************)
SeqsUpTo(S, n) == UNION {[1..k -> S] : k \in 0..n}

Range(s) == {s[i] : i \in DOMAIN s}

RECURSIVE SumSeq(_)
SumSeq(s) == IF s = <<>> THEN 0 ELSE Head(s) + SumSeq(Tail(s))

RECURSIVE SumMap(_)
\* Sum of the values of a Go map[string]int.
SumMap(m) ==
    IF DOMAIN m = {} THEN 0
    ELSE LET k == CHOOSE x \in DOMAIN m : TRUE
         IN m[k] + SumMap([x \in DOMAIN m \ {k} |-> m[x]])

RECURSIVE Flatten(_)
Flatten(ss) == IF ss = <<>> THEN <<>> ELSE Head(ss) \o Flatten(Tail(ss))

\* All orders in which a range over a Go map can visit the key set S.
Orders(S) == {q \in [1..Cardinality(S) -> S] : Range(q) = S}

\* A Go nil error is <<>>, a non-nil error is <<message>>.
NoError == <<>>
Errorf(msg) == <<msg>>

\* strings.Join
RECURSIVE Join(_, _)
Join(s, sep) ==
    IF s = <<>> THEN ""
    ELSE IF Len(s) = 1 THEN s[1]
    ELSE s[1] \o sep \o Join(Tail(s), sep)

\* make(map[string]int)
EmptyMap == [k \in {} |-> 0]

\* An addition that creates no key when it adds nothing.
MapAddNonZero(m, k, n) ==
    IF n = 0 /\ k \notin DOMAIN m THEN m
    ELSE [x \in DOMAIN m \cup {k} |->
            IF x = k THEN (IF k \in DOMAIN m THEN m[k] ELSE 0) + n ELSE m[x]]

\* m[k] += n on a Go map (a missing key reads as 0 and is created).
MapAdd(m, k, n) ==
    [x \in DOMAIN m \cup {k} |->
        IF x = k THEN (IF k \in DOMAIN m THEN m[k] ELSE 0) + n ELSE m[x]]

(***************************************************************************)
(* The registered collectors and the provider's regions.                    *)
(***************************************************************************)
\* registerCollectors: the keys of o.collectors.
registerCollectors ==
    {"ec2", "rds", "lambda", "s3", "dynamodb", "sfn", "cloudwatch", "ecs",
     "redis", "efs"}

\* The order sort.Strings puts service names in.
SortedNames ==
    <<"cloudwatch", "dynamodb", "ec2", "ecs", "efs", "lambda", "rds", "redis",
      "s3", "sfn">>

\* GetAvailableServices: the registered names, sorted.
GetAvailableServices == SelectSeq(SortedNames, LAMBDA s : s \in registerCollectors)

\* Collector.Regions(): S3 pins us-east-1, every other collector returns nil.
CollectorRegions(service) ==
    IF service = "s3" THEN <<"us-east-1">> ELSE <<>>

\* The regions EC2 DescribeRegions answers with (enabled regions of the account).
AvailableRegions == <<"us-east-1", "eu-west-1">>

\* Names a caller may put in CollectOptions.Services / Regions.
ServiceNames == {"ec2", "s3", "glacier"}
RegionNames == {"us-east-1", "mars-1"}

(***************************************************************************)
(* prepareServices, prepareRegions, createWorkItems.                        *)
(* A Go (value, error) pair is the record [val, err].                       *)
(***************************************************************************)
prepareServices(services) ==
    IF Len(services) = 0
    THEN [val |-> GetAvailableServices, err |-> NoError]
    ELSE LET validServices ==
                 SelectSeq(services, LAMBDA s : s \in registerCollectors)
             invalidServices ==
                 SelectSeq(services, LAMBDA s : s \notin registerCollectors)
         IN IF Len(invalidServices) > 0
            THEN [val |-> <<>>,
                  err |-> Errorf("invalid services: " \o Join(invalidServices, ", "))]
            ELSE [val |-> validServices, err |-> NoError]

\* DescribeRegions either answers (apiOK) or fails.
DiscoverRegions(apiOK) ==
    IF apiOK
    THEN [val |-> AvailableRegions, err |-> NoError]
    ELSE [val |-> <<>>, err |-> Errorf("failed to describe regions: RequestError")]

\* A validation that drops the unknown regions and goes on with the known ones.
ValidateRegionsLenient(apiOK, regions) ==
    LET discovered == DiscoverRegions(apiOK)
    IN IF discovered.err # NoError
       THEN [val |-> <<>>, err |-> discovered.err]
       ELSE [val |-> SelectSeq(regions, LAMBDA r : r \in Range(discovered.val)),
             err |-> NoError]

ValidateRegions(apiOK, regions) ==
    LET discovered == DiscoverRegions(apiOK)
    IN IF discovered.err # NoError
       THEN [val |-> <<>>, err |-> discovered.err]
       ELSE LET regionMap == Range(discovered.val)
                validRegions == SelectSeq(regions, LAMBDA r : r \in regionMap)
                invalidRegions == SelectSeq(regions, LAMBDA r : r \notin regionMap)
            IN IF Len(invalidRegions) > 0
               THEN [val |-> validRegions,
                     err |-> Errorf("invalid regions: " \o Join(invalidRegions, ", "))]
               ELSE [val |-> validRegions, err |-> NoError]

prepareRegions(apiOK, regions) ==
    IF Len(regions) = 0
    THEN DiscoverRegions(apiOK)
    ELSE ValidateRegions(apiOK, regions)

\* A builder that expands every service over the selected regions.
ItemsOfSelectedOnly(service, regions) ==
    [j \in 1..Len(regions) |-> [Service |-> service, Region |-> regions[j]]]

\* The work items one service contributes.
ItemsOf(service, regions) ==
    LET collectorRegions == CollectorRegions(service)
    IN IF Len(collectorRegions) > 0
       THEN [j \in 1..Len(collectorRegions) |->
                [Service |-> service, Region |-> collectorRegions[j]]]
       ELSE [j \in 1..Len(regions) |->
                [Service |-> service, Region |-> regions[j]]]

createWorkItems(services, regions) ==
    Flatten([i \in 1..Len(services) |-> ItemsOf(services[i], regions)])

(***************************************************************************)
(* Collectors.  A resource record keeps the fields the orchestrator and the *)
(* summary read.                                                            *)
(***************************************************************************)
Resource(service, region, id, state) ==
    [Service |-> service, Region |-> region, ID |-> id, State |-> state]

\* The Region field a collector writes into its records: convertBucket writes
\* "global", the regional collectors write the region they were called with.
RecordRegion(service, region) == IF service = "s3" THEN "global" ELSE region

\* What the account holds, per (service, region).
Inventory(service, region) ==
    IF service = "s3"
    THEN <<Resource("s3", "global", "bucket-1", "active")>>
    ELSE IF region = "us-east-1"
    THEN <<Resource(service, region, "i-1", "running"),
           Resource(service, region, "i-2", "stopped")>>
    ELSE <<Resource(service, region, "i-1", "running")>>

\* Collector.Collect(ctx, region): the resources, or nil and an error.
CollectorReturns(service, region) ==
    { [Resources |-> Inventory(service, region), Error |-> NoError],
      [Resources |-> <<>>, Error |-> Errorf("AccessDenied")] }

\* collectSingle: the CollectorResult built from what the collector returned.
collectSingle(item, ret) ==
    [Service |-> item.Service, Region |-> item.Region,
     Resources |-> ret.Resources, Error |-> ret.Error]

(***************************************************************************)
(* aggregateResults: the locals of the function and the body of its loop.   *)
(***************************************************************************)
\* models.Summary as the literal of aggregateResults creates it.
NewSummary ==
    [TotalResources |-> 0, ByService |-> EmptyMap, ByRegion |-> EmptyMap,
     ByState |-> EmptyMap, Errors |-> 0, Regions |-> <<>>, Services |-> <<>>,
     Duration |-> 0]

\* allResources, errors, summary, regionSet and serviceSet before the loop.
NewAcc ==
    [allResources |-> <<>>, errors |-> <<>>, summary |-> NewSummary,
     regionSet |-> {}, serviceSet |-> {}]

\* fmt.Sprintf("%s/%s: %v", result.Service, result.Region, result.Error)
ErrorMsg(result) ==
    result.Service \o "/" \o result.Region \o ": " \o result.Error[1]

RECURSIVE CountStatesAll(_, _)
\* A loop that counts the empty state like any other.
CountStatesAll(byState, resources) ==
    IF resources = <<>> THEN byState
    ELSE CountStatesAll(MapAdd(byState, Head(resources).State, 1),
                        Tail(resources))

RECURSIVE CountStates(_, _)
\* The loop over result.Resources that counts the non-empty states.
CountStates(byState, resources) ==
    IF resources = <<>> THEN byState
    ELSE CountStates(
             IF Head(resources).State # ""
             THEN MapAdd(byState, Head(resources).State, 1)
             ELSE byState,
             Tail(resources))

\* A loop body that counts one per outcome instead of len(result.Resources).
FoldResultCountsOutcomes(acc, result) ==
    IF result.Error # NoError
    THEN [acc EXCEPT !.errors = Append(@, ErrorMsg(result)),
                     !.summary.Errors = @ + 1]
    ELSE [acc EXCEPT
             !.allResources = @ \o result.Resources,
             !.summary.ByService = MapAdd(@, result.Service, 1),
             !.summary.ByRegion = MapAdd(@, result.Region, 1),
             !.regionSet = @ \cup {result.Region},
             !.serviceSet = @ \cup {result.Service},
             !.summary.ByState = CountStates(@, result.Resources)]

\* A loop body that also merges the resources of an outcome with an error.
FoldResultMergesErrors(acc, result) ==
    IF result.Error # NoError
    THEN [acc EXCEPT !.errors = Append(@, ErrorMsg(result)),
                     !.summary.Errors = @ + 1,
                     !.allResources = @ \o result.Resources]
    ELSE [acc EXCEPT
             !.allResources = @ \o result.Resources,
             !.summary.ByService = MapAdd(@, result.Service, Len(result.Resources)),
             !.summary.ByRegion = MapAdd(@, result.Region, Len(result.Resources)),
             !.regionSet = @ \cup {result.Region},
             !.serviceSet = @ \cup {result.Service},
             !.summary.ByState = CountStates(@, result.Resources)]

\* A loop body that puts the new resources in front of the list.
FoldResultPrepends(acc, result) ==
    IF result.Error # NoError
    THEN [acc EXCEPT !.errors = Append(@, ErrorMsg(result)),
                     !.summary.Errors = @ + 1]
    ELSE [acc EXCEPT
             !.allResources = result.Resources \o @,
             !.summary.ByService = MapAdd(@, result.Service, Len(result.Resources)),
             !.summary.ByRegion = MapAdd(@, result.Region, Len(result.Resources)),
             !.regionSet = @ \cup {result.Region},
             !.serviceSet = @ \cup {result.Service},
             !.summary.ByState = CountStates(@, result.Resources)]

\* One iteration of the loop over results.
FoldResult(acc, result) ==
    IF result.Error # NoError
    THEN [acc EXCEPT !.errors = Append(@, ErrorMsg(result)),
                     !.summary.Errors = @ + 1]
    ELSE [acc EXCEPT
             !.allResources = @ \o result.Resources,
             !.summary.ByService = MapAdd(@, result.Service, Len(result.Resources)),
             !.summary.ByRegion = MapAdd(@, result.Region, Len(result.Resources)),
             !.regionSet = @ \cup {result.Region},
             !.serviceSet = @ \cup {result.Service},
             !.summary.ByState = CountStates(@, result.Resources)]

RECURSIVE FoldAll(_, _)
\* The whole loop over results, from the locals acc.
FoldAll(acc, list) ==
    IF list = <<>> THEN acc
    ELSE FoldAll(FoldResult(acc, Head(list)), Tail(list))

\* A conversion that also lays out Resources service by service, in the order
\* the range over the service set happened to take.
FinishReportInMapOrder(acc, regionOrder, serviceOrder) ==
    LET grouped == Flatten([k \in 1..Len(serviceOrder) |->
                       SelectSeq(acc.allResources,
                                 LAMBDA r : r.Service = serviceOrder[k])])
    IN [Resources |-> grouped,
        Errors |-> acc.errors,
        Summary |-> [acc.summary EXCEPT !.Regions = regionOrder,
                                        !.Services = serviceOrder,
                                        !.TotalResources = Len(grouped)]]

\* The ResourceCollection returned once the sets are converted to slices, in
\* one of the orders a range over a map can take.
FinishReport(acc, regionOrder, serviceOrder) ==
    [Resources |-> acc.allResources,
     Errors |-> acc.errors,
     Summary |-> [acc.summary EXCEPT !.Regions = regionOrder,
                                     !.Services = serviceOrder,
                                     !.TotalResources = Len(acc.allResources)]]

(***************************************************************************)
(* State.                                                                   *)
(***************************************************************************)
VARIABLES
    opts,        \* CollectOptions: Services, Regions, Parallel, FailFast
    pc,          \* where Collect is
    retErr,      \* the error Collect returned: NoError or Errorf(..)
    collection,  \* the report Collect returned: <<>> (nil) or <<report>>
    workItems,   \* the slice createWorkItems built
    task,        \* task[i]: where the goroutine of workItems[i] is
    local,       \* local[i]: the goroutine's result variable, once collected
    semaphore,   \* number of tokens in the buffered channel
    mu,          \* 0 when the mutex is free, else the goroutine holding it
    results,     \* the shared results slice
    ctxDone,     \* ctx.Done() is closed
    acc,         \* the locals of aggregateResults
    foldIdx,     \* index of the next result the loop of aggregateResults reads
    fmtArgs,     \* the arguments of the Format call made: <<>> or <<args>>
    written,     \* what Format wrote to its writer: <<>> or <<output>>
    now,         \* time.Now(): hours for the pricing cache, ticks elsewhere
    cache,       \* PricingCache.data: cache key -> CachedPrice
    apiLog,      \* history: cache key -> the last successful API fetch
    answer,      \* the PricingResult GetPricing returned last: <<>> or <<r>>
    callers,     \* callers[g]: the cache method goroutine g is in, and where
    rwmu         \* PricingCache.mu: the goroutines holding it to read, to write

vars ==
    <<opts, pc, retErr, collection, workItems, task, local, semaphore, mu,
      results, ctxDone, acc, foldIdx, fmtArgs, written, now, cache, apiLog,
      answer, callers, rwmu>>

execVars == <<task, local, semaphore, mu, results>>
aggVars == <<acc, foldIdx>>
outVars == <<fmtArgs, written>>
lockVars == <<callers, rwmu>>
priceVars == <<now, cache, apiLog, answer, lockVars>>

\* Goroutines that call the cache at the same time.
MaxCallers == 2
Goroutines == 1..MaxCallers

\* A goroutine in neither get nor set.
Idle == [op |-> "idle", at |-> "idle"]

\* No formatter has been called.
InitOutput == fmtArgs = <<>> /\ written = <<>>

\* NewPricingService: an empty cache.
InitPricing ==
    /\ now = 0 /\ cache = EmptyMap /\ apiLog = EmptyMap /\ answer = <<>>
    /\ callers = [g \in Goroutines |-> Idle]
    /\ rwmu = [readers |-> {}, writer |-> {}]

Tasks == DOMAIN workItems

\* The work items Collect builds from opts when region discovery answers,
\* <<>> when it returns a configuration error.
ItemsFor(o) ==
    LET ps == prepareServices(o.Services)
        pr == prepareRegions(TRUE, o.Regions)
    IN IF ps.err # NoError \/ pr.err # NoError THEN <<>>
       ELSE createWorkItems(ps.val, pr.val)

InitCommon ==
    /\ opts \in [Services : SeqsUpTo(ServiceNames, MaxServices),
                 Regions : SeqsUpTo(RegionNames, MaxRegions),
                 Parallel : -1..MaxParallel,
                 FailFast : BOOLEAN]
    /\ pc = "start"
    /\ retErr = NoError
    /\ collection = <<>>
    /\ workItems = <<>>
    /\ task = <<>>
    /\ local = <<>>
    /\ semaphore = 0
    /\ mu = 0
    /\ results = <<>>
    /\ ctxDone = FALSE
    /\ acc = NewAcc
    /\ foldIdx = 0
    /\ InitOutput
    /\ InitPricing

\* The runs of Collect the executor is explored with.
Init ==
    /\ InitCommon
    /\ Len(ItemsFor(opts)) <= MaxItems

(***************************************************************************)
(* Collect, up to the call of executeCollection.                            *)
(***************************************************************************)
Prepare ==
    /\ pc = "start"
    /\ \E apiOK \in BOOLEAN :
         LET ps == prepareServices(opts.Services)
             pr == prepareRegions(apiOK, opts.Regions)
         IN IF ps.err # NoError
            THEN /\ pc' = "failed"
                 /\ retErr' = ps.err
                 /\ workItems' = workItems
            ELSE IF pr.err # NoError
            THEN /\ pc' = "failed"
                 /\ retErr' = pr.err
                 /\ workItems' = workItems
            ELSE /\ pc' = "execute"
                 /\ retErr' = retErr
                 /\ workItems' = createWorkItems(ps.val, pr.val)
    /\ UNCHANGED <<opts, collection, execVars, ctxDone, aggVars, outVars, priceVars>>

(***************************************************************************)
(* executeCollection.                                                       *)
(***************************************************************************)
\* make(chan struct{}, opts.Parallel) panics on a negative size; otherwise
\* one goroutine per work item is started (wg.Add(1); go func ...).
StartExecution ==
    /\ pc = "execute"
    /\ IF opts.Parallel < 0
       THEN /\ pc' = "panic"
            /\ UNCHANGED <<task, local>>
       ELSE /\ pc' = "wait"
            /\ task' = [i \in Tasks |-> "acquire"]
            /\ local' = [i \in Tasks |-> <<>>]
    /\ UNCHANGED <<opts, retErr, collection, workItems, semaphore, mu, results,
                   ctxDone, aggVars, outVars, priceVars>>

\* A send that also proceeds when the buffer is full.
CanSendOffByOne(n, capacity) == n <= capacity

\* A send on a buffered channel holding n of its capacity proceeds when a
\* buffer slot is free (no goroutine ever waits to receive from this channel).
CanSend(n, capacity) == n < capacity

\* select: case semaphore <- struct{}{}
Acquire(i) ==
    /\ pc = "wait"
    /\ task[i] = "acquire"
    /\ CanSend(semaphore, opts.Parallel)
    /\ semaphore' = semaphore + 1
    /\ task' = [task EXCEPT ![i] = "collect"]
    /\ UNCHANGED <<opts, pc, retErr, collection, workItems, local, mu, results,
                   ctxDone, aggVars, outVars, priceVars>>

\* A goroutine that looks at ctx.Done() only when it could also send.
SkipWhenSlotFree(i) ==
    /\ pc = "wait"
    /\ task[i] = "acquire"
    /\ ctxDone
    /\ CanSend(semaphore, opts.Parallel)
    /\ task' = [task EXCEPT ![i] = "skipped"]
    /\ UNCHANGED <<opts, pc, retErr, collection, workItems, local, semaphore, mu,
                   results, ctxDone, aggVars, outVars, priceVars>>

\* select: case <-ctx.Done(): return (the deferred wg.Done runs)
Skip(i) ==
    /\ pc = "wait"
    /\ task[i] = "acquire"
    /\ ctxDone
    /\ task' = [task EXCEPT ![i] = "skipped"]
    /\ UNCHANGED <<opts, pc, retErr, collection, workItems, local, semaphore, mu,
                   results, ctxDone, aggVars, outVars, priceVars>>

\* A goroutine that drops the outcome of a call during which the context was
\* cancelled.
CollectSingleDropsCancelled(i) ==
    /\ pc = "wait"
    /\ task[i] = "collect"
    /\ IF ctxDone
       THEN /\ local' = local
            /\ task' = [task EXCEPT ![i] = "release"]
       ELSE /\ \E ret \in CollectorReturns(workItems[i].Service, workItems[i].Region) :
                 local' = [local EXCEPT ![i] = <<collectSingle(workItems[i], ret)>>]
            /\ task' = [task EXCEPT ![i] = "lock"]
    /\ UNCHANGED <<opts, pc, retErr, collection, workItems, semaphore, mu,
                   results, ctxDone, aggVars, outVars, priceVars>>

\* A goroutine that calls the collector again after an error.
CollectSingleRetries(i) ==
    /\ pc = "wait"
    /\ task[i] = "collect"
    /\ \E ret \in CollectorReturns(workItems[i].Service, workItems[i].Region) :
         /\ local' = [local EXCEPT ![i] = <<collectSingle(workItems[i], ret)>>]
         /\ task' = [task EXCEPT ![i] = IF ret.Error # NoError THEN "collect" ELSE "lock"]
    /\ UNCHANGED <<opts, pc, retErr, collection, workItems, semaphore, mu,
                   results, ctxDone, aggVars, outVars, priceVars>>

\* result := o.collectSingle(ctx, item, opts.Verbose)
CollectSingle(i) ==
    /\ pc = "wait"
    /\ task[i] = "collect"
    /\ \E ret \in CollectorReturns(workItems[i].Service, workItems[i].Region) :
         local' = [local EXCEPT ![i] = <<collectSingle(workItems[i], ret)>>]
    /\ task' = [task EXCEPT ![i] = "lock"]
    /\ UNCHANGED <<opts, pc, retErr, collection, workItems, semaphore, mu,
                   results, ctxDone, aggVars, outVars, priceVars>>

\* A Lock that does not wait for the holder of the mutex.
LockBarging(i) ==
    /\ pc = "wait"
    /\ task[i] = "lock"
    /\ mu' = i
    /\ task' = [task EXCEPT ![i] = "append"]
    /\ UNCHANGED <<opts, pc, retErr, collection, workItems, local, semaphore,
                   results, ctxDone, aggVars, outVars, priceVars>>

\* mu.Lock()
Lock(i) ==
    /\ pc = "wait"
    /\ task[i] = "lock"
    /\ mu = 0
    /\ mu' = i
    /\ task' = [task EXCEPT ![i] = "append"]
    /\ UNCHANGED <<opts, pc, retErr, collection, workItems, local, semaphore,
                   results, ctxDone, aggVars, outVars, priceVars>>

\* An append that, under fail-fast, records the outcome a second time.
AppendResultTwice(i) ==
    /\ pc = "wait"
    /\ task[i] = "append"
    /\ mu = i
    /\ results' = IF opts.FailFast
                  THEN results \o <<local[i][1], local[i][1]>>
                  ELSE Append(results, local[i][1])
    /\ mu' = 0
    /\ task' = [task EXCEPT ![i] = "release"]
    /\ UNCHANGED <<opts, pc, retErr, collection, workItems, local, semaphore,
                   ctxDone, aggVars, outVars, priceVars>>

\* An append that loses what other goroutines appended (a lost update).
AppendResultLossy(i) ==
    /\ pc = "wait"
    /\ task[i] = "append"
    /\ mu = i
    /\ results' = <<local[i][1]>>
    /\ mu' = 0
    /\ task' = [task EXCEPT ![i] = "release"]
    /\ UNCHANGED <<opts, pc, retErr, collection, workItems, local, semaphore,
                   ctxDone, aggVars, outVars, priceVars>>

\* results = append(results, result); mu.Unlock()
AppendResult(i) ==
    /\ pc = "wait"
    /\ task[i] = "append"
    /\ mu = i
    /\ results' = Append(results, local[i][1])
    /\ mu' = 0
    /\ task' = [task EXCEPT ![i] = "release"]
    /\ UNCHANGED <<opts, pc, retErr, collection, workItems, local, semaphore,
                   ctxDone, aggVars, outVars, priceVars>>

\* The fail-fast block: its body holds only comments, so nothing is cancelled.
FailFastCancels(failFast, result) == FALSE

\* A goroutine that gives its slot back only after a successful collector call.
ReleaseOnSuccess(i) ==
    /\ pc = "wait"
    /\ task[i] = "release"
    /\ ctxDone' = (ctxDone \/ FailFastCancels(opts.FailFast, local[i][1]))
    /\ semaphore' = IF local[i][1].Error = NoError THEN semaphore - 1 ELSE semaphore
    /\ task' = [task EXCEPT ![i] = "done"]
    /\ UNCHANGED <<opts, pc, retErr, collection, workItems, local, mu, results,
                   aggVars, outVars, priceVars>>

\* The fail-fast block, then the deferred calls: <-semaphore and wg.Done().
Release(i) ==
    /\ pc = "wait"
    /\ task[i] = "release"
    /\ ctxDone' = (ctxDone \/ FailFastCancels(opts.FailFast, local[i][1]))
    /\ semaphore' = semaphore - 1
    /\ task' = [task EXCEPT ![i] = "done"]
    /\ UNCHANGED <<opts, pc, retErr, collection, workItems, local, mu, results,
                   aggVars, outVars, priceVars>>

\* The caller's context is cancelled or its timeout expires.
Cancel ==
    /\ pc = "wait"
    /\ ~ctxDone
    /\ ctxDone' = TRUE
    /\ UNCHANGED <<opts, pc, retErr, collection, workItems, execVars, aggVars, outVars, priceVars>>

\* A WaitGroup that is released by the first goroutine to finish.
WaitGroupAny(t) == \E i \in DOMAIN t : t[i] \in {"done", "skipped"}

\* The WaitGroup counter is zero: every goroutine has run its deferred wg.Done().
WaitGroupZero(t) == \A i \in DOMAIN t : t[i] \in {"done", "skipped"}

\* wg.Wait() returns; return results.
WaitReturn ==
    /\ pc = "wait"
    /\ WaitGroupZero(task)
    /\ pc' = "aggregate"
    /\ UNCHANGED <<opts, retErr, collection, workItems, execVars, ctxDone, aggVars, outVars, priceVars>>

(***************************************************************************)
(* aggregateResults and the return of Collect.                              *)
(***************************************************************************)
\* startTime := time.Now() at the start of Collect, where the clock is 0.
startTime == 0

\* time.Since(t)
Since(t) == now - t

\* The declarations before the loop; the summary literal reads the clock for
\* Duration.
AggStart ==
    /\ pc = "aggregate"
    /\ acc' = [NewAcc EXCEPT !.summary.Duration = Since(startTime)]
    /\ foldIdx' = 1
    /\ pc' = "fold"
    /\ UNCHANGED <<opts, retErr, collection, workItems, execVars, ctxDone, outVars, priceVars>>

AggFold ==
    /\ pc = "fold"
    /\ foldIdx <= Len(results)
    /\ acc' = FoldResult(acc, results[foldIdx])
    /\ foldIdx' = foldIdx + 1
    /\ UNCHANGED <<opts, pc, retErr, collection, workItems, execVars, ctxDone, outVars, priceVars>>

\* A return that turns the first per-task error into the error of Collect.
AggFinishReturnsTaskError ==
    /\ pc = "fold"
    /\ foldIdx > Len(results)
    /\ IF acc.errors # <<>>
       THEN /\ collection' = <<>>
            /\ retErr' = Errorf(acc.errors[1])
       ELSE /\ \E regionOrder \in Orders(acc.regionSet),
                  serviceOrder \in Orders(acc.serviceSet) :
                 collection' = <<FinishReport(acc, regionOrder, serviceOrder)>>
            /\ retErr' = retErr
    /\ pc' = "returned"
    /\ UNCHANGED <<opts, workItems, execVars, ctxDone, aggVars, outVars, priceVars>>

AggFinish ==
    /\ pc = "fold"
    /\ foldIdx > Len(results)
    /\ \E regionOrder \in Orders(acc.regionSet), serviceOrder \in Orders(acc.serviceSet) :
         collection' = <<FinishReport(acc, regionOrder, serviceOrder)>>
    /\ pc' = "returned"
    /\ UNCHANGED <<opts, retErr, workItems, execVars, ctxDone, aggVars, outVars, priceVars>>

Next ==
    \/ Prepare
    \/ StartExecution
    \/ \E i \in Tasks : Acquire(i)
    \/ \E i \in Tasks : Skip(i)
    \/ \E i \in Tasks : CollectSingle(i)
    \/ \E i \in Tasks : Lock(i)
    \/ \E i \in Tasks : AppendResult(i)
    \/ \E i \in Tasks : Release(i)
    \/ Cancel
    \/ WaitReturn
    \/ AggStart
    \/ AggFold
    \/ AggFinish

Spec == Init /\ [][Next]_vars

(***************************************************************************)
(* Collect under the scheduling the Go runtime gives: a goroutine that can  *)
(* take a step eventually takes one (a collector call in flight returns, a  *)
(* select with a ready case proceeds, the mutex is handed on), and so does  *)
(* the caller's goroutine.                                                  *)
(***************************************************************************)
\* A step of the goroutine of workItems[i].
goroutine(i) ==
    /\ i \in Tasks
    /\ \/ Acquire(i) \/ Skip(i) \/ CollectSingle(i)
       \/ Lock(i) \/ AppendResult(i) \/ Release(i)

\* A step of the goroutine that called Collect.
caller == Prepare \/ StartExecution \/ WaitReturn \/ AggStart \/ AggFold \/ AggFinish

\* The runs explored under fairness: one service over every region list,
\* without fail-fast, which changes nothing in executeCollection.
InitLive == Init /\ ~opts.FailFast /\ opts.Services = <<"ec2">>

SpecLive ==
    /\ InitLive
    /\ [][Next]_vars
    /\ \A i \in 1..MaxItems : WF_vars(goroutine(i))
    /\ WF_vars(caller)

(***************************************************************************)
(* executeCollection over the work items of the ec2 and s3 collectors in    *)
(* the discovered regions.                                                  *)
(***************************************************************************)
InitExec ==
    /\ Init
    /\ ~opts.FailFast
    /\ opts.Services # <<>>
    /\ Range(opts.Services) \subseteq {"ec2", "s3"}
    /\ opts.Regions = <<>>

SpecExec == InitExec /\ [][Next]_vars

(***************************************************************************)
(* Collect up to createWorkItems, over every option list within the bounds  *)
(* (an empty Services list selects all registered collectors).              *)
(***************************************************************************)
SpecBuild == InitCommon /\ [][Prepare]_vars

(***************************************************************************)
(* aggregateResults as a function of an arbitrary outcome list.             *)
(***************************************************************************)
\* Longest outcome list aggregateResults is given.
MaxOutcomes == 3

\* (service, region) pairs of the outcomes.
OutcomeKeys == {<<"ec2", "us-east-1">>, <<"ec2", "eu-west-1">>, <<"s3", "us-east-1">>}

\* Resource lists an outcome for (service, region) may carry.
ResourceLists(service, region) ==
    LET rr == RecordRegion(service, region)
    IN { <<>>,
         <<Resource(service, rr, "id-1", "running")>>,
         <<Resource(service, rr, "id-1", "running"),
           Resource(service, rr, "id-2", "")>> }

\* CollectorResult values: the struct allows Resources next to an Error.
Outcomes ==
    UNION { { [Service |-> k[1], Region |-> k[2], Resources |-> l, Error |-> e] :
                l \in ResourceLists(k[1], k[2]),
                e \in {NoError, Errorf("AccessDenied")} } : k \in OutcomeKeys }

InitAgg ==
    /\ opts = [Services |-> <<>>, Regions |-> <<>>, Parallel |-> 1, FailFast |-> FALSE]
    /\ pc = "aggregate"
    /\ retErr = NoError
    /\ collection = <<>>
    /\ workItems = <<>>
    /\ task = <<>>
    /\ local = <<>>
    /\ semaphore = 0
    /\ mu = 0
    /\ results \in SeqsUpTo(Outcomes, MaxOutcomes)
    /\ ctxDone = FALSE
    /\ acc = NewAcc
    /\ foldIdx = 0
    /\ InitOutput
    /\ InitPricing

NextAgg == AggStart \/ AggFold \/ AggFinish

SpecAgg == InitAgg /\ [][NextAgg]_vars

(***************************************************************************)
(* aggregateResults while the clock runs.                                   *)
(***************************************************************************)
\* Longest outcome list aggregated against the clock.
MaxTimed == 2

\* Ticks of the clock during one call.
MaxTicks == 3

\* The clock advances while aggregateResults has outcomes left to fold (or
\* has not started), so that after the last iteration of the loop the clock
\* shows the instant of that iteration.
Elapse ==
    /\ \/ pc = "aggregate"
       \/ pc = "fold" /\ foldIdx <= Len(results)
    /\ now < MaxTicks
    /\ now' = now + 1
    /\ UNCHANGED <<opts, pc, retErr, collection, workItems, execVars, ctxDone,
                   aggVars, outVars, cache, apiLog, answer, lockVars>>

InitTimed ==
    /\ opts = [Services |-> <<>>, Regions |-> <<>>, Parallel |-> 1, FailFast |-> FALSE]
    /\ pc = "aggregate"
    /\ retErr = NoError
    /\ collection = <<>>
    /\ workItems = <<>>
    /\ task = <<>>
    /\ local = <<>>
    /\ semaphore = 0
    /\ mu = 0
    /\ results \in SeqsUpTo(Outcomes, MaxTimed)
    /\ ctxDone = FALSE
    /\ acc = NewAcc
    /\ foldIdx = 0
    /\ InitOutput
    /\ InitPricing

NextTimed == AggStart \/ AggFold \/ AggFinish \/ Elapse

SpecTimed == InitTimed /\ [][NextTimed]_vars

(***************************************************************************)
(* The report consumers: Format of the table, JSON and CSV formatters.      *)
(***************************************************************************)
\* Longest outcome list behind a report handed to a formatter.
MaxFormatted == 2

\* The strings of the records, in the byte order Go's < compares them in.
Lexicon ==
    <<"", "active", "bucket-1", "ec2", "eu-west-1", "global", "i-1", "i-2",
      "id-1", "id-2", "running", "s3", "stopped", "us-east-1">>

\* a < b on strings.
StrLess(a, b) ==
    LET rank(x) == CHOOSE i \in DOMAIN Lexicon : Lexicon[i] = x
    IN rank(a) < rank(b)

\* strings.ToLower on the strings of the model: the records' fields are in
\* lower case already, of the filter values only "EC2" and "RUN" are not.
ToLower(s) ==
    CASE s = "EC2" -> "ec2"
      [] s = "RUN" -> "run"
      [] OTHER -> s

\* What may stand before and after an occurrence of a filter value in a field
\* of a record, and before the "*" of a filter value.
Fragments == {"", "ning", "run", "RUN", "ec", "2", "s", "3"}

\* strings.Contains(s, sub)
Contains(s, sub) == \E a, b \in Fragments : a \o sub \o b = s

\* strings.HasSuffix(s, "*")
HasStarSuffix(s) == \E p \in Fragments : p \o "*" = s

\* strings.TrimSuffix(s, "*")
TrimStarSuffix(s) ==
    IF HasStarSuffix(s) THEN CHOOSE p \in Fragments : p \o "*" = s ELSE s

\* The filter lists Format is called with.
FilterLists ==
    { <<>>,
      <<[Key |-> "service", Value |-> "EC2"]>>,
      <<[Key |-> "state", Value |-> "RUN*"]>>,
      <<[Key |-> "service", Value |-> "ec2"], [Key |-> "region", Value |-> "us-east-1"]>>,
      <<[Key |-> "team", Value |-> "ec2"]>> }

\* The sort fields Format is called with ("" takes the default branch).
SortFields == {"service", "region", "id", "state", ""}

Formatters == {"table", "json", "csv"}

\* matchesFilter: equality up to case, or a substring match when the value
\* ends in "*"; a key that names no field is looked up in the tags, of which
\* the records of the model have none.
matchesFilter(resource, filter) ==
    LET isSubstring == HasStarSuffix(filter.Value)
        value == TrimStarSuffix(filter.Value)
        known == filter.Key \in {"service", "region", "id", "state"}
        fieldValue == CASE filter.Key = "service" -> resource.Service
                        [] filter.Key = "region" -> resource.Region
                        [] filter.Key = "id" -> resource.ID
                        [] filter.Key = "state" -> resource.State
                        [] OTHER -> ""
    IN /\ known
       /\ IF isSubstring
          THEN Contains(ToLower(fieldValue), ToLower(value))
          ELSE ToLower(fieldValue) = ToLower(value)

matchesFilters(resource, filters) ==
    \A k \in DOMAIN filters : matchesFilter(resource, filters[k])

\* applyFilters: the slice itself when there is no filter, otherwise a new
\* slice of the matching records.
applyFilters(resources, filters) ==
    IF Len(filters) = 0 THEN resources
    ELSE SelectSeq(resources, LAMBDA r : matchesFilters(r, filters))

\* The less function sortResources hands to sort.Slice.
less(r1, r2, sortField) ==
    LET key(r) == CASE sortField = "service" -> r.Service
                    [] sortField = "region" -> r.Region
                    [] sortField = "id" -> r.ID
                    [] sortField = "state" -> r.State
                    [] OTHER -> r.Service
    IN IF key(r1) = key(r2) THEN StrLess(r1.ID, r2.ID)
       ELSE StrLess(key(r1), key(r2))

\* s without its i-th element.
RemoveAt(s, i) == SubSeq(s, 1, i - 1) \o SubSeq(s, i + 1, Len(s))

RECURSIVE sortResources(_, _)
\* sortResources: the orders sort.Slice, which is not stable, can leave the
\* slice in: every permutation in which no record is less than an earlier one.
sortResources(resources, sortField) ==
    IF resources = <<>> THEN {<<>>}
    ELSE UNION { { <<resources[i]>> \o rest :
                     rest \in sortResources(RemoveAt(resources, i), sortField) } :
                 i \in { i \in DOMAIN resources :
                           \A j \in DOMAIN resources :
                               ~less(resources[j], resources[i], sortField) } }

\* The estimate functions, in cents per month. The records of the model
\* carry no Type, so a running ec2 instance gets the estimate for an unknown
\* instance type; an instance that is not running costs nothing; a bucket
\* gets the minimal-usage estimate.
estimateCost(resource) ==
    CASE resource.Service = "ec2" ->
             IF resource.State # "running" THEN 0 ELSE 5000
      [] resource.Service = "s3" -> 100
      [] OTHER -> 0

RECURSIVE calculateCostEstimates(_, _)
\* calculateCostEstimates: costs[resource.ID] = estimate for each resource in
\* turn, from the map costs.
calculateCostEstimates(costs, resources) ==
    IF resources = <<>> THEN costs
    ELSE LET r == Head(resources)
         IN calculateCostEstimates(
                [id \in DOMAIN costs \cup {r.ID} |->
                    IF id = r.ID THEN estimateCost(r) ELSE costs[id]],
                Tail(resources))

\* What a formatter writes for the sorted resources: the table and the JSON
\* document carry the total of the cost map, a summary (the collection's,
\* with TotalResources set to the number of rows) and a row per resource with
\* the cost estimate found under its ID; the CSV file has the rows only.
Output(formatter, summary, resources) ==
    LET costEstimates == calculateCostEstimates(EmptyMap, resources)
        rows == [k \in DOMAIN resources |->
                    [Resource |-> resources[k],
                     Cost |-> costEstimates[resources[k].ID]]]
    IN IF formatter = "csv"
       THEN [Rows |-> rows]
       ELSE [Rows |-> rows,
             TotalMonthlyCost |-> SumMap(costEstimates),
             Summary |-> [summary EXCEPT !.TotalResources = Len(resources)]]

\* Format of TableFormatter, JSONFormatter and CSVFormatter: filter, sort,
\* estimate the costs, write. With no filter the slice that is sorted is
\* collection.Resources itself.
Format(formatter) ==
    /\ pc = "returned"
    /\ collection # <<>>
    /\ \E filters \in FilterLists, sortField \in SortFields :
         LET resources == applyFilters(collection[1].Resources, filters)
         IN \E sorted \in sortResources(resources, sortField) :
              /\ written' = <<Output(formatter, collection[1].Summary, sorted)>>
              /\ collection' =
                     IF Len(filters) = 0
                     THEN <<[collection[1] EXCEPT !.Resources = sorted]>>
                     ELSE collection
              /\ fmtArgs' = <<[Formatter |-> formatter, Filters |-> filters,
                               SortField |-> sortField]>>
    /\ pc' = "formatted"
    /\ UNCHANGED <<opts, retErr, workItems, execVars, ctxDone, aggVars, priceVars>>

\* The reports Collect hands over: aggregateResults of an outcome list.
InitFormat ==
    /\ opts = [Services |-> <<>>, Regions |-> <<>>, Parallel |-> 1, FailFast |-> FALSE]
    /\ pc = "returned"
    /\ retErr = NoError
    /\ workItems = <<>>
    /\ task = <<>>
    /\ local = <<>>
    /\ semaphore = 0
    /\ mu = 0
    /\ results \in SeqsUpTo(Outcomes, MaxFormatted)
    /\ ctxDone = FALSE
    /\ acc = FoldAll(NewAcc, results)
    /\ foldIdx = Len(results) + 1
    /\ \E regionOrder \in Orders(acc.regionSet), serviceOrder \in Orders(acc.serviceSet) :
         collection = <<FinishReport(acc, regionOrder, serviceOrder)>>
    /\ InitOutput
    /\ InitPricing

NextFormat == \E formatter \in Formatters : Format(formatter)

SpecFormat == InitFormat /\ [][NextFormat]_vars

(***************************************************************************)
(* The pricing service: GetPricing over the cache, the pricing API and the  *)
(* fallback table. Times are in hours, prices in 1/10000 USD.               *)
(***************************************************************************)
\* 24 * time.Hour
CacheTTL == 24

\* The clock stops here.
MaxClock == 26

\* The (service, region, instanceType) triples GetPricing is asked for.
PriceQueries ==
    { <<"ec2", "us-east-1", "t3.micro">>, <<"rds", "eu-west-1", "db.m5.large">> }

\* Hourly prices the pricing API answers with; the first is also the
\* fallback price of an ec2 t3.micro.
APIPrices == {116, 104}

\* fmt.Sprintf("%s-%s-%s", service, region, instanceType)
CacheKey(service, region, instanceType) ==
    service \o "-" \o region \o "-" \o instanceType

\* A get that still answers at the instant the entry expires.
getUntilExpiry(data, key, t) ==
    IF key \in DOMAIN data
    THEN IF t <= data[key].ExpiresAt
         THEN [found |-> TRUE, price |-> <<data[key]>>, data |-> data]
         ELSE [found |-> FALSE, price |-> <<>>,
               data |-> [k \in DOMAIN data \ {key} |-> data[k]]]
    ELSE [found |-> FALSE, price |-> <<>>, data |-> data]

\* PricingCache.get at time t: the entry and true while t is before its
\* ExpiresAt; an expired entry is deleted. data is the map afterwards.
get(data, key, t) ==
    IF key \in DOMAIN data
    THEN IF t < data[key].ExpiresAt
         THEN [found |-> TRUE, price |-> <<data[key]>>, data |-> data]
         ELSE [found |-> FALSE, price |-> <<>>,
               data |-> [k \in DOMAIN data \ {key} |-> data[k]]]
    ELSE [found |-> FALSE, price |-> <<>>, data |-> data]

\* PricingCache.set
set(data, key, price) ==
    [k \in DOMAIN data \cup {key} |-> IF k = key THEN price ELSE data[k]]

\* The PricingResult fields the cache decides.
PricingResult(price, currency, region, accuracy, source) ==
    [HourlyPrice |-> price, MonthlyPrice |-> price * 730, Currency |-> currency,
     Region |-> region, Accuracy |-> accuracy, Source |-> source]

\* getFallbackPricing: the hardcoded table, its per-service default, 0.05
\* for a service without a table.
getFallbackPricing(service, region, instanceType) ==
    LET hourlyPrice ==
            CASE service = "ec2" /\ instanceType = "t3.micro" -> 116
              [] service = "ec2" -> 500
              [] service = "rds" /\ instanceType = "db.m5.large" -> 2340
              [] service = "rds" -> 1000
              [] OTHER -> 500
    IN PricingResult(hourlyPrice, "USD", region, "Medium", "fallback")

\* GetPricing: the cached price if get finds one; otherwise the API's price,
\* stored with ExpiresAt 24 hours after the moment of the store, or the
\* fallback price when the API fails. The API call takes latency hours.
GetPricing(service, region, instanceType) ==
    LET cacheKey == CacheKey(service, region, instanceType)
        cached == get(cache, cacheKey, now)
    IN IF cached.found
       THEN /\ answer' = <<PricingResult(cached.price[1].Price,
                                         cached.price[1].Currency,
                                         region, "High", "cache")>>
            /\ cache' = cached.data
            /\ UNCHANGED <<now, apiLog>>
       ELSE \E latency \in 0..1 :
              /\ now + latency <= MaxClock
              /\ now' = now + latency
              /\ \/ \* fetchPricingFromAPI returns an error
                    /\ answer' = <<getFallbackPricing(service, region, instanceType)>>
                    /\ cache' = cached.data
                    /\ UNCHANGED apiLog
                 \/ \E price \in APIPrices :
                      /\ cache' = set(cached.data, cacheKey,
                                      [Price |-> price,
                                       ExpiresAt |-> now' + CacheTTL,
                                       Currency |-> "USD"])
                      /\ apiLog' = set(apiLog, cacheKey,
                                       [At |-> now', Price |-> price])
                      /\ answer' = <<PricingResult(price, "USD", region,
                                                   "High", "api")>>

\* One call of GetPricing by the cost estimation.
Price ==
    /\ pc = "pricing"
    /\ \E q \in PriceQueries : GetPricing(q[1], q[2], q[3])
    /\ UNCHANGED <<opts, pc, retErr, collection, workItems, execVars, ctxDone,
                   aggVars, outVars, lockVars>>

\* An hour passes.
Tick ==
    /\ pc = "pricing"
    /\ now < MaxClock
    /\ now' = now + 1
    /\ UNCHANGED <<opts, pc, retErr, collection, workItems, execVars, ctxDone,
                   aggVars, outVars, cache, apiLog, answer, lockVars>>

InitPrice ==
    /\ opts = [Services |-> <<>>, Regions |-> <<>>, Parallel |-> 1, FailFast |-> FALSE]
    /\ pc = "pricing"
    /\ retErr = NoError
    /\ collection = <<>>
    /\ workItems = <<>>
    /\ task = <<>>
    /\ local = <<>>
    /\ semaphore = 0
    /\ mu = 0
    /\ results = <<>>
    /\ ctxDone = FALSE
    /\ acc = NewAcc
    /\ foldIdx = 0
    /\ InitOutput
    /\ InitPricing

NextPrice == Price \/ Tick

SpecPrice == InitPrice /\ [][NextPrice]_vars

(***************************************************************************)
(* PricingCache.get and PricingCache.set called by several goroutines, one  *)
(* step per lock operation and per access to the map.                       *)
(***************************************************************************)
CacheKeys == { CacheKey(q[1], q[2], q[3]) : q \in PriceQueries }

\* What a cache step leaves alone, besides the cache, the callers and the lock.
cacheFrame ==
    <<opts, pc, retErr, collection, workItems, execVars, ctxDone, aggVars,
      outVars, now, apiLog, answer>>

\* A goroutine calls get(key).
CallGet(g) ==
    /\ pc = "pricing"
    /\ callers[g] = Idle
    /\ \E key \in CacheKeys :
         callers' = [callers EXCEPT ![g] = [op |-> "get", at |-> "RLock", key |-> key]]
    /\ UNCHANGED <<cacheFrame, cache, rwmu>>

\* cache.mu.RLock(): granted while no goroutine holds the lock to write.
RLock(g) ==
    /\ callers[g].at = "RLock"
    /\ rwmu.writer = {}
    /\ rwmu' = [rwmu EXCEPT !.readers = @ \cup {g}]
    /\ callers' = [callers EXCEPT ![g].at = "lookup"]
    /\ UNCHANGED <<cacheFrame, cache>>

\* price, exists := cache.data[key], and the comparison with time.Now():
\* a live entry is returned, an expired one is to be deleted.
Lookup(g) ==
    /\ callers[g].at = "lookup"
    /\ LET cached == get(cache, callers[g].key, now)
       IN callers' = [callers EXCEPT ![g].at =
                         IF cached.data # cache THEN "delete" ELSE "RUnlock"]
    /\ UNCHANGED <<cacheFrame, cache, rwmu>>

\* delete(cache.data, key)
Delete(g) ==
    /\ callers[g].at = "delete"
    /\ cache' = [k \in DOMAIN cache \ {callers[g].key} |-> cache[k]]
    /\ callers' = [callers EXCEPT ![g].at = "RUnlock"]
    /\ UNCHANGED <<cacheFrame, rwmu>>

\* The deferred cache.mu.RUnlock(), and get returns.
RUnlock(g) ==
    /\ callers[g].at = "RUnlock"
    /\ rwmu' = [rwmu EXCEPT !.readers = @ \ {g}]
    /\ callers' = [callers EXCEPT ![g] = Idle]
    /\ UNCHANGED <<cacheFrame, cache>>

\* A goroutine calls set(key, price) with the entry GetPricing builds:
\* ExpiresAt 24 hours from now.
CallSet(g) ==
    /\ pc = "pricing"
    /\ callers[g] = Idle
    /\ \E key \in CacheKeys, price \in APIPrices :
         callers' = [callers EXCEPT ![g] =
                        [op |-> "set", at |-> "Lock", key |-> key,
                         price |-> [Price |-> price,
                                    ExpiresAt |-> now + CacheTTL,
                                    Currency |-> "USD"]]]
    /\ UNCHANGED <<cacheFrame, cache, rwmu>>

\* cache.mu.Lock(): granted while no goroutine holds the lock at all.
LockForWrite(g) ==
    /\ callers[g].at = "Lock"
    /\ rwmu.writer = {}
    /\ rwmu.readers = {}
    /\ rwmu' = [rwmu EXCEPT !.writer = {g}]
    /\ callers' = [callers EXCEPT ![g].at = "store"]
    /\ UNCHANGED <<cacheFrame, cache>>

\* cache.data[key] = price
Store(g) ==
    /\ callers[g].at = "store"
    /\ cache' = set(cache, callers[g].key, callers[g].price)
    /\ callers' = [callers EXCEPT ![g].at = "Unlock"]
    /\ UNCHANGED <<cacheFrame, rwmu>>

\* The deferred cache.mu.Unlock(), and set returns.
Unlock(g) ==
    /\ callers[g].at = "Unlock"
    /\ rwmu' = [rwmu EXCEPT !.writer = {}]
    /\ callers' = [callers EXCEPT ![g] = Idle]
    /\ UNCHANGED <<cacheFrame, cache>>

\* The lifetime of a cache entry passes.
Expire ==
    /\ pc = "pricing"
    /\ now + CacheTTL <= MaxClock
    /\ now' = now + CacheTTL
    /\ UNCHANGED <<opts, pc, retErr, collection, workItems, execVars, ctxDone,
                   aggVars, outVars, cache, apiLog, answer, lockVars>>

NextCache ==
    \/ Expire
    \/ \E g \in Goroutines :
         \/ CallGet(g) \/ RLock(g) \/ Lookup(g) \/ Delete(g) \/ RUnlock(g)
         \/ CallSet(g) \/ LockForWrite(g) \/ Store(g) \/ Unlock(g)

SpecCache == InitPrice /\ [][NextCache]_vars

(***************************************************************************)
(* Properties.                                                              *)
(***************************************************************************)
\* The report Collect returned.
Report == collection[1]

\* The goroutines that hold a semaphore slot: past the send, before <-semaphore.
Holding == {i \in DOMAIN task : task[i] \in {"collect", "lock", "append", "release"}}

\* The goroutines inside the collector call.
InCollector == {i \in DOMAIN task : task[i] = "collect"}

\* C1: with Parallel = k >= 1, in every reachable state at most k goroutines
\* are between acquiring a semaphore slot and releasing it (so at most k are
\* inside a collector call), whatever the number of work items.
C1_BoundedConcurrency ==
    opts.Parallel >= 1 =>
        /\ Cardinality(Holding) <= opts.Parallel
        /\ Cardinality(InCollector) <= opts.Parallel
        /\ semaphore = Cardinality(Holding)

\* Three work items under Parallel = 2: two collector calls in flight while
\* the third goroutine waits for a slot.
C1_Witness ==
    /\ opts.Parallel = 2
    /\ Len(workItems) = 3
    /\ Cardinality(InCollector) = 2
    /\ \E i \in DOMAIN task : task[i] = "acquire"


\* Number of positions of seq that hold x.
Count(seq, x) == Cardinality({i \in DOMAIN seq : seq[i] = x})

\* The goroutines whose collector call returned an error.
Failed == {i \in DOMAIN local : local[i] # <<>> /\ local[i][1].Error # NoError}

\* The resources the account holds for work item i.
InventoryOf(i) == Inventory(workItems[i].Service, workItems[i].Region)

\* C2: with fail-fast disabled and no cancellation, when the collector of one
\* work item fails, every other work item is still executed and recorded; the
\* report holds exactly one errors entry "<service>/<region>: <error>" for the
\* failing item, none of its resources, and all resources of the other items.
C2_ErrorIsolated ==
    (pc = "returned" /\ ~opts.FailFast /\ ~ctxDone /\ Cardinality(Failed) = 1) =>
        LET f == CHOOSE i \in Failed : TRUE
            others == Tasks \ {f}
        IN /\ \A i \in others :
                /\ task[i] = "done"
                /\ local[i] = <<[Service |-> workItems[i].Service,
                                 Region |-> workItems[i].Region,
                                 Resources |-> InventoryOf(i),
                                 Error |-> NoError]>>
                /\ Count(results, local[i][1]) =
                       Cardinality({j \in Tasks : local[j] = local[i]})
           /\ Report.Errors =
                  <<workItems[f].Service \o "/" \o workItems[f].Region \o ": "
                        \o local[f][1].Error[1]>>
           /\ Report.Summary.Errors = 1
           /\ Len(Report.Resources) =
                  SumSeq([i \in 1..Len(workItems) |->
                             IF i = f THEN 0 ELSE Len(InventoryOf(i))])
           /\ \A i \in others : \A k \in DOMAIN InventoryOf(i) :
                  Count(Report.Resources, InventoryOf(i)[k]) =
                      Cardinality({j \in others : InventoryOf(j) = InventoryOf(i)})

\* A finished run of three work items in which exactly one collector failed.
C2_Witness ==
    /\ pc = "returned"
    /\ ~opts.FailFast
    /\ ~ctxDone
    /\ Cardinality(Failed) = 1
    /\ Len(workItems) = 3
    /\ Len(Report.Errors) = 1
    /\ Len(Report.Resources) >= 2

\* C3: executeCollection is a full join: once it has returned (and while
\* aggregateResults runs) every goroutine has either appended its outcome or
\* been skipped by cancellation; with Parallel >= 1 and a context that is never
\* cancelled the returned list holds exactly one outcome per work item.
C3_FullJoin ==
    pc \in {"aggregate", "fold", "returned"} =>
        /\ DOMAIN task = Tasks
        /\ \A i \in Tasks :
              \/ task[i] = "done" /\ local[i] # <<>> /\ Count(results, local[i][1]) >= 1
              \/ task[i] = "skipped" /\ local[i] = <<>> /\ ctxDone
        /\ Len(results) = Cardinality({i \in Tasks : task[i] = "done"})
        /\ ~ctxDone =>
              /\ opts.Parallel >= 1
              /\ Len(results) = Len(workItems)
              /\ \A w \in Range(workItems) :
                    Cardinality({j \in DOMAIN results :
                        results[j].Service = w.Service /\ results[j].Region = w.Region})
                    = Count(workItems, w)

\* executeCollection has just returned all three outcomes of an uncancelled run.
C3_Witness ==
    /\ pc = "aggregate"
    /\ ~ctxDone
    /\ Len(workItems) = 3
    /\ Len(results) = 3

\* C4: with FailFast enabled, once a goroutine whose outcome carries an error
\* has passed the fail-fast block, the shared cancellation signal has fired
\* (so that goroutines still waiting for a slot are skipped).
C4_FailFastCancels ==
    opts.FailFast =>
        \A i \in DOMAIN task :
            (task[i] = "done" /\ local[i][1].Error # NoError) => ctxDone

\* Some goroutine of executeCollection can take a step.
TaskStep ==
    \E i \in Tasks :
        \/ Acquire(i) \/ Skip(i) \/ CollectSingle(i)
        \/ Lock(i) \/ AppendResult(i) \/ Release(i)

\* C5: with Parallel <= 0 and a non-empty work item list, executeCollection
\* does not crash, and while the context is not cancelled and goroutines are
\* outstanding some goroutine can make progress (no deadlock on the semaphore).
C5_NonPositiveParallelClamped ==
    (opts.Parallel <= 0 /\ Len(workItems) > 0) =>
        /\ pc # "panic"
        /\ (pc = "wait" /\ ~ctxDone /\ ~WaitGroupZero(task)) => ENABLED TaskStep

\* The outcomes without and with an error, in the order of results.
OkOutcomes == SelectSeq(results, LAMBDA r : r.Error = NoError)
ErrOutcomes == SelectSeq(results, LAMBDA r : r.Error # NoError)

\* Reading a Go map[string]int: a missing key reads as 0.
MapGet(m, k) == IF k \in DOMAIN m THEN m[k] ELSE 0

\* C6: for every outcome list the report of aggregateResults has
\* Summary.TotalResources = len(Resources), and the values of ByService and of
\* ByRegion each sum to TotalResources.
C6_SummaryConsistent ==
    pc = "returned" =>
        /\ Report.Summary.TotalResources = Len(Report.Resources)
        /\ SumMap(Report.Summary.ByService) = Report.Summary.TotalResources
        /\ SumMap(Report.Summary.ByRegion) = Report.Summary.TotalResources

\* Two successful outcomes of different services and regions, three resources.
C6_Witness ==
    /\ pc = "returned"
    /\ Len(results) = 2
    /\ Report.Summary.TotalResources = 3
    /\ Cardinality(DOMAIN Report.Summary.ByService) = 2
    /\ Cardinality(DOMAIN Report.Summary.ByRegion) = 2

\* C7: every outcome with an error appends exactly one message
\* "<service>/<region>: <error>" to Errors and adds one to Summary.Errors, and
\* contributes nothing else: the resources, ByService, ByRegion, ByState and the
\* region and service sets are those of the outcomes without error alone; so
\* Summary.Errors = len(Errors) = the number of outcomes with an error.
C7_ErrorOutcomesOnlyCount ==
    pc = "returned" =>
        LET clean == FoldAll(NewAcc, OkOutcomes)
        IN /\ Report.Errors =
                  [i \in 1..Len(ErrOutcomes) |->
                      ErrOutcomes[i].Service \o "/" \o ErrOutcomes[i].Region
                          \o ": " \o ErrOutcomes[i].Error[1]]
           /\ Report.Summary.Errors = Len(Report.Errors)
           /\ Report.Summary.Errors = Len(ErrOutcomes)
           /\ Report.Resources = clean.allResources
           /\ Report.Summary.ByService = clean.summary.ByService
           /\ Report.Summary.ByRegion = clean.summary.ByRegion
           /\ Report.Summary.ByState = clean.summary.ByState
           /\ Range(Report.Summary.Regions) = clean.regionSet
           /\ Range(Report.Summary.Services) = clean.serviceSet

\* An outcome with an error that carries resources, next to a successful one.
C7_Witness ==
    /\ pc = "returned"
    /\ \E i \in DOMAIN results :
          results[i].Error # NoError /\ Len(results[i].Resources) > 0
    /\ \E i \in DOMAIN results :
          results[i].Error = NoError /\ Len(results[i].Resources) > 0
    /\ Report.Summary.Errors = 1

\* C8: Resources is the concatenation, in outcome order, of the resource lists
\* of the outcomes without error; ByService[s] and ByRegion[r] are the resource
\* totals of the outcomes without error for service s and for region r, and the
\* maps hold no other keys.
C8_ConcatenationAndCounts ==
    pc = "returned" =>
        /\ Report.Resources =
               Flatten([i \in 1..Len(OkOutcomes) |-> OkOutcomes[i].Resources])
        /\ \A k \in OutcomeKeys :
              /\ MapGet(Report.Summary.ByService, k[1]) =
                     SumSeq([i \in 1..Len(results) |->
                         IF results[i].Error = NoError /\ results[i].Service = k[1]
                         THEN Len(results[i].Resources) ELSE 0])
              /\ MapGet(Report.Summary.ByRegion, k[2]) =
                     SumSeq([i \in 1..Len(results) |->
                         IF results[i].Error = NoError /\ results[i].Region = k[2]
                         THEN Len(results[i].Resources) ELSE 0])
        /\ DOMAIN Report.Summary.ByService = {r.Service : r \in Range(OkOutcomes)}
        /\ DOMAIN Report.Summary.ByRegion = {r.Region : r \in Range(OkOutcomes)}

\* The round trip of the specification: one service with 2 resources in one
\* region, another service failing in another region.
C8_Witness ==
    /\ pc = "returned"
    /\ Len(results) = 2
    /\ results[1].Service = "ec2" /\ results[1].Region = "eu-west-1"
    /\ results[1].Error = NoError /\ Len(results[1].Resources) = 2
    /\ results[2].Service = "s3" /\ results[2].Region = "us-east-1"
    /\ results[2].Error # NoError
    /\ Report.Summary.TotalResources = 2
    /\ Report.Errors = <<"s3/us-east-1: AccessDenied">>
    /\ Report.Summary.ByService = [s \in {"ec2"} |-> 2]
    /\ Report.Summary.ByRegion = [r \in {"eu-west-1"} |-> 2]

\* C9: createWorkItems never emits the same (service, region) pair twice.
C9_NoDuplicateWorkItems ==
    \A i, j \in DOMAIN workItems : i # j => workItems[i] # workItems[j]

\* The services and regions a successful preparation selects.
SelectedServices ==
    IF opts.Services = <<>> THEN GetAvailableServices ELSE opts.Services
SelectedRegions ==
    IF opts.Regions = <<>> THEN AvailableRegions ELSE opts.Regions

\* The regions the items of a selected service are expected in.
RegionsFor(service) ==
    IF CollectorRegions(service) # <<>> THEN CollectorRegions(service)
    ELSE SelectedRegions

\* C10: every selected service gets one work item per region its collector
\* declares when Regions() is non-empty (s3: only us-east-1, whatever regions
\* are selected) and otherwise one per selected region; the number of items is
\* the sum of these counts over the selected services.
C10_ItemsPerService ==
    pc = "execute" =>
        /\ Len(workItems) =
               SumSeq([i \in 1..Len(SelectedServices) |->
                          Len(RegionsFor(SelectedServices[i]))])
        /\ \A w \in Range(workItems) :
              /\ w.Service \in Range(SelectedServices)
              /\ w.Service = "s3" => w.Region = "us-east-1"
        /\ \A s \in Range(SelectedServices) : \A r \in Range(RegionsFor(s)) :
              Count(workItems, [Service |-> s, Region |-> r]) =
                  Count(SelectedServices, s) * Count(RegionsFor(s), r)

\* ec2 and s3 selected with the two discovered regions: ec2 gets two items and
\* s3 the single item of its pinned region.
C10_Witness ==
    /\ pc = "execute"
    /\ opts.Services = <<"ec2", "s3">>
    /\ opts.Regions = <<>>
    /\ workItems = <<[Service |-> "ec2", Region |-> "us-east-1"],
                     [Service |-> "ec2", Region |-> "eu-west-1"],
                     [Service |-> "s3", Region |-> "us-east-1"]>>

\* A requested service without a registered collector, or a requested region
\* that the provider does not list.
ConfigError ==
    \/ \E s \in Range(opts.Services) : s \notin registerCollectors
    \/ \E r \in Range(opts.Regions) : r \notin Range(AvailableRegions)

\* C11: on a configuration error (an unknown service or an unknown region)
\* Collect fails before any work starts: it returns a nil report and an error,
\* no work item is created and no collector is invoked.
C11_ConfigErrorFailsEarly ==
    /\ ConfigError =>
          /\ pc \in {"start", "failed"}
          /\ workItems = <<>>
          /\ task = <<>> /\ local = <<>> /\ results = <<>>
          /\ collection = <<>>
    /\ pc = "failed" =>
          /\ retErr # NoError
          /\ collection = <<>>
          /\ workItems = <<>>
          /\ task = <<>> /\ local = <<>> /\ results = <<>>

\* Collect has failed on a region list that names one known and one unknown
\* region, with a valid service list.
C11_Witness ==
    /\ pc = "failed"
    /\ opts.Services = <<"ec2">>
    /\ opts.Regions = <<"us-east-1", "mars-1">>
    /\ retErr = <<"invalid regions: mars-1">>
    /\ collection = <<>>

\* C12: once prepareServices and prepareRegions have succeeded the error result
\* of Collect stays nil, however many collector calls fail: when Collect has
\* returned the report is non-nil and the failures of the collector calls are
\* entries of its Errors list; an error result only comes with a failed
\* preparation.
C12_TaskErrorsStayInReport ==
    /\ pc \notin {"start", "failed"} => retErr = NoError
    /\ retErr # NoError => pc = "failed"
    /\ collection # <<>> => pc = "returned"
    /\ pc = "returned" =>
          /\ collection # <<>>
          /\ Len(Report.Errors) = Cardinality(Failed)
          /\ Report.Summary.Errors = Cardinality(Failed)

\* Collect has returned from a run of three work items whose collector calls
\* all failed.
C12_Witness ==
    /\ pc = "returned"
    /\ Len(workItems) = 3
    /\ Cardinality(Failed) = 3
    /\ collection # <<>>
    /\ Report.Resources = <<>>
    /\ retErr = NoError

\* executeCollection has returned.
Joined == pc \in {"aggregate", "fold", "returned"}

\* The goroutines that were skipped by cancellation.
Skipped == {i \in DOMAIN task : task[i] = "skipped"}

\* C13: each work item's collector is invoked at most once (a goroutine that
\* holds a result never calls the collector again and its result never changes)
\* and each work item yields at most one outcome: the outcomes never outnumber
\* the work items, after the join there are fewer outcomes than work items
\* exactly when some goroutine was skipped by cancellation, and a skipped item
\* has neither an outcome nor an entry in Errors.
C13_AtMostOneOutcome ==
    /\ [](/\ Len(results) <= Len(workItems)
          /\ pc = "wait" =>
                Len(results) =
                    Cardinality({i \in DOMAIN task : task[i] \in {"release", "done"}})
          /\ Joined =>
                /\ (Len(results) < Len(workItems)) <=> (Skipped # {})
                /\ Len(results) = Len(workItems) - Cardinality(Skipped)
                /\ \A i \in Skipped : local[i] = <<>>
          /\ pc = "returned" =>
                Len(Report.Errors) + Len(OkOutcomes) + Cardinality(Skipped)
                    = Len(workItems))
    /\ [][\A i \in DOMAIN local :
             local[i] # <<>> =>
                 /\ local'[i] = local[i]
                 /\ task'[i] \notin {"acquire", "collect", "skipped"}]_vars

\* After the join of a cancelled run: one goroutine was skipped, another has
\* recorded an error outcome.
C13_Witness ==
    /\ pc = "aggregate"
    /\ Len(workItems) = 3
    /\ Cardinality(Skipped) = 1
    /\ Failed # {}
    /\ Len(results) = 2

\* The total a run without fail-fast and without cancellation collects when
\* the collectors of the work items in failing fail.
NoFailFastTotal(failing) ==
    SumSeq([i \in 1..Len(workItems) |->
               IF i \in failing THEN 0 ELSE Len(InventoryOf(i))])

\* C14: for the same work items and the same collector behaviour, a run with
\* FailFast enabled whose first completed task failed collects no more
\* resources than the run with FailFast disabled: the latter collects the
\* inventory of every item whose collector succeeds, the former at most that,
\* whatever the collectors of the items it did not run would have done.
C14_FailFastCollectsNoMore ==
    /\ (pc = "returned" /\ ~opts.FailFast /\ ~ctxDone) =>
          Report.Summary.TotalResources = NoFailFastTotal(Failed)
    /\ (pc = "returned" /\ opts.FailFast /\ results # <<>>
          /\ results[1].Error # NoError) =>
          \A failing \in SUBSET Tasks :
              (failing \ Skipped = Failed) =>
                  Report.Summary.TotalResources <= NoFailFastTotal(failing)

\* A finished fail-fast run of three work items whose first outcome is an
\* error and which collected resources from the others.
C14_Witness ==
    /\ pc = "returned"
    /\ opts.FailFast
    /\ ~ctxDone
    /\ Len(workItems) = 3
    /\ results[1].Error # NoError
    /\ Report.Summary.TotalResources > 0

\* The reports a further run of aggregateResults on the same outcome list can
\* return, one per order the ranges over the two sets can take.
SecondRuns ==
    LET again == FoldAll(NewAcc, results)
    IN { FinishReport(again, ro, so) :
           ro \in Orders(again.regionSet), so \in Orders(again.serviceSet) }

\* C15: a second run of aggregateResults on the same outcome list returns the
\* same ByService, ByRegion and ByState maps, the same TotalResources and
\* Errors count, and Resources and Errors in the same order as the report the
\* first run returned, whatever order the map iterations take in either run.
C15_AggregateRepeatable ==
    pc = "returned" =>
        \A second \in SecondRuns :
            /\ second.Summary.ByService = Report.Summary.ByService
            /\ second.Summary.ByRegion = Report.Summary.ByRegion
            /\ second.Summary.ByState = Report.Summary.ByState
            /\ second.Summary.TotalResources = Report.Summary.TotalResources
            /\ second.Summary.Errors = Report.Summary.Errors
            /\ second.Resources = Report.Resources
            /\ second.Errors = Report.Errors

\* A report over two services and two regions (so that the map iterations
\* have two orders each, and a second run may differ in Services and Regions)
\* with an error next to them.
C15_Witness ==
    /\ pc = "returned"
    /\ Len(results) = 3
    /\ Len(Report.Summary.Services) = 2
    /\ Len(Report.Summary.Regions) = 2
    /\ Report.Summary.Services = <<"s3", "ec2">>
    /\ Len(Report.Errors) = 1
    /\ Len(Report.Resources) = 3
    /\ Cardinality(SecondRuns) = 4

\* C16: in every report the summary counts agree with the records' own
\* fields: ByRegion[x] is the number of resources whose Region is x and
\* ByService[s] the number of resources whose Service is s.
C16_CountsMatchRecordFields ==
    pc = "returned" =>
        /\ \A x \in DOMAIN Report.Summary.ByRegion
                    \cup {Report.Resources[k].Region : k \in DOMAIN Report.Resources} :
              MapGet(Report.Summary.ByRegion, x) =
                  Cardinality({k \in DOMAIN Report.Resources :
                                  Report.Resources[k].Region = x})
        /\ \A s \in DOMAIN Report.Summary.ByService
                    \cup {Report.Resources[k].Service : k \in DOMAIN Report.Resources} :
              MapGet(Report.Summary.ByService, s) =
                  Cardinality({k \in DOMAIN Report.Resources :
                                  Report.Resources[k].Service = s})

\* C17: Format of the table, JSON and CSV formatters leaves the report as it
\* was: collection.Resources holds the same records in the same order after
\* the call as before it, and collection.Summary is unchanged, for every
\* filter list and every sort field.
C17_FormatLeavesReport ==
    [][(pc = "returned" /\ pc' = "formatted") =>
           /\ collection'[1].Resources = collection[1].Resources
           /\ collection'[1].Summary = collection[1].Summary
           /\ collection'[1].Errors = collection[1].Errors]_vars

\* The cache key of a query.
KeyOf(q) == CacheKey(q[1], q[2], q[3])

\* The entry under key was stored by a successful API fetch, at most at the
\* present time and less than 24 hours ago.
FreshFetch(key) ==
    /\ key \in DOMAIN apiLog
    /\ apiLog[key].At <= now
    /\ now - apiLog[key].At < CacheTTL
    /\ cache[key].Price = apiLog[key].Price
    /\ cache[key].ExpiresAt = apiLog[key].At + CacheTTL

\* C18: the pricing cache honours its 24-hour TTL. PricingCache.get never
\* returns an entry at or after its ExpiresAt; whenever get finds an entry
\* (which is when GetPricing answers with Source "cache") the entry was stored
\* by a successful API fetch less than 24 hours before and carries its price;
\* every entry in the cache was stored by a successful API fetch; and a call
\* that answers with the fallback price stores nothing.
C18_CacheHonoursTTL ==
    /\ [](\A key \in DOMAIN cache :
            /\ key \in DOMAIN apiLog
            /\ cache[key].Price = apiLog[key].Price
            /\ cache[key].ExpiresAt = apiLog[key].At + CacheTTL
            /\ LET cached == get(cache, key, now)
               IN cached.found =>
                     /\ now < cached.price[1].ExpiresAt
                     /\ cached.price[1] = cache[key]
                     /\ FreshFetch(key))
    /\ [][\A q \in PriceQueries :
             GetPricing(q[1], q[2], q[3]) =>
                 /\ (answer'[1].Source = "cache") <=> get(cache, KeyOf(q), now).found
                 /\ answer'[1].Source = "cache" =>
                       /\ FreshFetch(KeyOf(q))
                       /\ answer'[1].HourlyPrice = apiLog[KeyOf(q)].Price
                       /\ cache' = cache /\ apiLog' = apiLog
                 /\ answer'[1].Source = "fallback" =>
                       /\ KeyOf(q) \notin DOMAIN cache'
                       /\ \A k \in DOMAIN cache' :
                             k \in DOMAIN cache /\ cache'[k] = cache[k]
                       /\ apiLog' = apiLog
                 /\ answer'[1].Source = "api" =>
                       /\ cache'[KeyOf(q)].ExpiresAt = now' + CacheTTL
                       /\ apiLog'[KeyOf(q)].At = now']_vars

\* An entry was fetched, expired and was deleted by a later get; the API then
\* failed, GetPricing answered with the fallback price, and the cache holds
\* no entry for the key.
C18_Witness ==
    /\ pc = "pricing"
    /\ answer # <<>>
    /\ answer[1].Source = "fallback"
    /\ answer[1].Region = "us-east-1"
    /\ "ec2-us-east-1-t3.micro" \in DOMAIN apiLog
    /\ apiLog["ec2-us-east-1-t3.micro"].Price = 116
    /\ now = apiLog["ec2-us-east-1-t3.micro"].At + CacheTTL
    /\ "ec2-us-east-1-t3.micro" \notin DOMAIN cache

\* C19: once the cancellation signal has fired no goroutine of
\* executeCollection acquires a semaphore slot any more, even when a slot is
\* free: a goroutine at the acquire step only returns without an outcome.
C19_NoAcquireAfterCancel ==
    [][ctxDone =>
          \A i \in DOMAIN task :
              task[i] = "acquire" => task'[i] \in {"acquire", "skipped"}]_vars

\* C20: a cancelled run does not block on the semaphore: once the
\* cancellation signal has fired, every goroutine waiting for a slot
\* eventually leaves the acquire step and executeCollection eventually
\* returns, whatever Parallel and the number of work items are.
C20_CancelledRunReturns ==
    /\ \A i \in 1..MaxItems :
          (pc = "wait" /\ ctxDone /\ i \in DOMAIN task /\ task[i] = "acquire")
              ~> (i \in DOMAIN task /\ task[i] # "acquire")
    /\ (pc = "wait" /\ ctxDone) ~> (pc = "aggregate")

\* executeCollection has returned from a cancelled run over an unbuffered
\* semaphore: no goroutine got a slot, every one of them was skipped.
C20_Witness ==
    /\ pc = "aggregate"
    /\ ctxDone
    /\ opts.Parallel = 0
    /\ Len(workItems) = 2
    /\ \A i \in DOMAIN task : task[i] = "skipped"
    /\ results = <<>>

\* C21: semaphore slots are acquired and released in pairs. The semaphore
\* holds one token per goroutine between its acquire and its release; a step
\* changes the token count only by a goroutine leaving the acquire step for
\* the collector call (+1) or running its deferred release (-1), on the error
\* path as on the success path; a skipped goroutine changes nothing; and once
\* executeCollection has returned the semaphore is empty.
C21_SlotsPaired ==
    /\ [](/\ pc = "wait" => semaphore = Cardinality(Holding)
          /\ Joined => semaphore = 0)
    /\ [][pc = "wait" =>
            \A i \in DOMAIN task :
               task'[i] # task[i] =>
                  /\ (task[i] = "acquire" /\ task'[i] = "collect")
                        => semaphore' = semaphore + 1
                  /\ task'[i] = "skipped"
                        => (task[i] = "acquire" /\ semaphore' = semaphore)
                  /\ task'[i] = "done"
                        => (task[i] = "release" /\ semaphore' = semaphore - 1)
                  /\ task'[i] \in {"lock", "append", "release"}
                        => semaphore' = semaphore]_vars

\* A cancelled run of three goroutines has returned: one was skipped, one
\* released its slot after an error, one after a success.
C21_Witness ==
    /\ pc = "aggregate"
    /\ semaphore = 0
    /\ Len(workItems) = 3
    /\ Cardinality(Skipped) = 1
    /\ \E i, j \in DOMAIN task :
          /\ task[i] = "done" /\ local[i][1].Error # NoError
          /\ task[j] = "done" /\ local[j][1].Error = NoError

\* C22: a goroutine releases its slot before it takes the results lock: the
\* tokens in the semaphore are those of the goroutines inside a collector
\* call, and a goroutine waiting for the lock or appending holds none.
C22_ReleaseBeforeRecord ==
    pc = "wait" => semaphore = Cardinality(InCollector)

\* C23: results is only appended to, and only by the goroutine that holds the
\* mutex: at most one goroutine is in the append section, every change of
\* results is that goroutine appending its own outcome, and after the join
\* results holds each outcome of a goroutine that completed its collector
\* call exactly once and nothing else.
C23_AppendUnderMutex ==
    /\ [](/\ pc = "wait" =>
               /\ Cardinality({i \in DOMAIN task : task[i] = "append"}) <= 1
               /\ \A i \in DOMAIN task : task[i] = "append" <=> mu = i
          /\ Joined =>
               /\ Len(results) = Cardinality({i \in DOMAIN local : local[i] # <<>>})
               /\ \A k \in DOMAIN results :
                     Count(results, results[k]) =
                        Cardinality({i \in DOMAIN local : local[i] = <<results[k]>>})
               /\ \A i \in DOMAIN local :
                     local[i] # <<>> => \E k \in DOMAIN results : results[k] = local[i][1])
    /\ [][results' # results =>
            \E i \in DOMAIN task :
               /\ task[i] = "append" /\ mu = i /\ mu' = 0
               /\ results' = Append(results, local[i][1])]_vars

\* Two goroutines have appended, a third holds the mutex while both slots of
\* the semaphore are still taken.
C23_Witness ==
    /\ pc = "wait"
    /\ Len(workItems) = 3
    /\ Len(results) = 2
    /\ mu # 0
    /\ task[mu] = "append"
    /\ results[1].Error # NoError
    /\ results[2].Error = NoError

\* The goroutines that got past the select.
Started == {i \in DOMAIN task : task[i] \notin {"acquire", "skipped"}}

\* C24: a goroutine that has started its collector call records exactly one
\* outcome, also when the context is cancelled during the call:
\* executeCollection does not return while such a goroutine has not finished,
\* after the join results holds one outcome per started goroutine, and under
\* fair scheduling a goroutine in its collector call eventually has its
\* outcome, resources or error, in results.
C24_StartedTaskRecords ==
    /\ [](Joined =>
            /\ \A i \in DOMAIN task : task[i] \in {"done", "skipped"}
            /\ Len(results) = Cardinality(Started)
            /\ \A i \in Started :
                  /\ local[i] # <<>>
                  /\ \E k \in DOMAIN results : results[k] = local[i][1])
    /\ \A i \in 1..MaxItems :
          (pc = "wait" /\ i \in DOMAIN task /\ task[i] = "collect")
             ~> (/\ i \in DOMAIN task /\ task[i] = "done" /\ local[i] # <<>>
                 /\ \E k \in DOMAIN results : results[k] = local[i][1])

\* A cancelled run: the first goroutine was skipped, the second one, which
\* held the only slot, has recorded the two resources its collector returned.
C24_Witness ==
    /\ pc = "aggregate"
    /\ ctxDone
    /\ opts.Parallel = 1
    /\ Len(workItems) = 2
    /\ task[1] = "skipped"
    /\ task[2] = "done"
    /\ Len(results) = 1
    /\ results[1].Error = NoError
    /\ Len(results[1].Resources) = 2

\* C25: Summary.Duration is read after all outcomes have been folded: the
\* clock reading behind Duration is not earlier than the instant at which the
\* last outcome was merged (which is what the clock shows on return).
C25_DurationAfterFold ==
    (pc = "returned" /\ results # <<>>) =>
        Report.Summary.Duration >= Since(startTime)

\* The merged resources whose State is x.
WithState(x) == {k \in DOMAIN Report.Resources : Report.Resources[k].State = x}

\* C26: after aggregateResults, ByState[x] is the number of merged resources
\* whose State is x for every non-empty x, ByState has no entry for the empty
\* state, and the sum of ByState is the number of merged resources with a
\* non-empty State, which is at most TotalResources.
C26_ByStateCounts ==
    pc = "returned" =>
        LET byState == Report.Summary.ByState
            states == {Report.Resources[k].State : k \in DOMAIN Report.Resources}
        IN /\ \A x \in (DOMAIN byState \cup states) \ {""} :
                 MapGet(byState, x) = Cardinality(WithState(x))
           /\ "" \notin DOMAIN byState
           /\ SumMap(byState) = Len(Report.Resources) - Cardinality(WithState(""))
           /\ SumMap(byState) <= Report.Summary.TotalResources

\* Two merged outcomes of two resources each, one running and one without a
\* state: ByState counts two of the four resources.
C26_Witness ==
    /\ pc = "returned"
    /\ Report.Summary.TotalResources = 4
    /\ Cardinality(WithState("")) = 2
    /\ DOMAIN Report.Summary.ByState = {"running"}
    /\ Report.Summary.ByState["running"] = 2

\* The elements of a list are pairwise different.
NoRepeats(list) == Cardinality(Range(list)) = Len(list)

\* C27: Summary.Services lists each service of an outcome without error
\* exactly once and Summary.Regions each region of such an outcome exactly
\* once; they are the key sets of ByService and ByRegion. An outcome without
\* error and without resources adds its service and region with count 0; a
\* service or region with only error outcomes is in none of them.
C27_ServicesAndRegionsListed ==
    pc = "returned" =>
        LET okServices == {OkOutcomes[k].Service : k \in DOMAIN OkOutcomes}
            okRegions == {OkOutcomes[k].Region : k \in DOMAIN OkOutcomes}
            s == Report.Summary
        IN /\ Range(s.Services) = okServices /\ NoRepeats(s.Services)
           /\ Range(s.Regions) = okRegions /\ NoRepeats(s.Regions)
           /\ DOMAIN s.ByService = okServices
           /\ DOMAIN s.ByRegion = okRegions
           /\ \A k \in DOMAIN ErrOutcomes :
                 /\ ErrOutcomes[k].Service \notin okServices =>
                       /\ ErrOutcomes[k].Service \notin Range(s.Services)
                       /\ ErrOutcomes[k].Service \notin DOMAIN s.ByService
                 /\ ErrOutcomes[k].Region \notin okRegions =>
                       /\ ErrOutcomes[k].Region \notin Range(s.Regions)
                       /\ ErrOutcomes[k].Region \notin DOMAIN s.ByRegion

\* ec2 answered twice in eu-west-1 without any resource, s3 failed in
\* us-east-1: ec2 and eu-west-1 are listed once with count 0, s3 and
\* us-east-1 are not listed.
C27_Witness ==
    /\ pc = "returned"
    /\ Len(results) = 3
    /\ Len(OkOutcomes) = 2
    /\ Report.Summary.Services = <<"ec2">>
    /\ Report.Summary.Regions = <<"eu-west-1">>
    /\ Report.Summary.ByService = [x \in {"ec2"} |-> 0]
    /\ Report.Summary.ByRegion = [x \in {"eu-west-1"} |-> 0]
    /\ \E k \in DOMAIN results : results[k].Service = "s3" /\ results[k].Error # NoError

\* The sum of the cost estimates of the resources of the rows.
SumOfEstimates(rows) ==
    SumSeq([k \in DOMAIN rows |-> estimateCost(rows[k].Resource)])

\* C29: the total monthly cost the table and JSON formatters report is the
\* sum of the cost estimates of the resources in the filtered list, and each
\* row shows the estimate computed for its own resource, also when resources
\* of different services or regions share an ID.
C29_TotalIsSumOfEstimates ==
    (pc = "formatted" /\ fmtArgs[1].Formatter \in {"table", "json"}) =>
        /\ written[1].TotalMonthlyCost = SumOfEstimates(written[1].Rows)
        /\ \A k \in DOMAIN written[1].Rows :
              written[1].Rows[k].Cost = estimateCost(written[1].Rows[k].Resource)

\* C30: the summary in the JSON document agrees with the resources in it,
\* for every filter list: totalResources is the number of resources written,
\* and byService and byRegion each sum to totalResources.
C30_JSONSummaryConsistent ==
    (pc = "formatted" /\ fmtArgs[1].Formatter = "json") =>
        /\ written[1].Summary.TotalResources = Len(written[1].Rows)
        /\ SumMap(written[1].Summary.ByService) = written[1].Summary.TotalResources
        /\ SumMap(written[1].Summary.ByRegion) = written[1].Summary.TotalResources

\* Goroutine g is at a statement that reads the map.
ReadsMap(g) == callers[g].at = "lookup"

\* Goroutine g is at a statement that writes the map.
WritesMap(g) == callers[g].at \in {"delete", "store"}

\* C28: PricingCache.data is never written by one goroutine while another
\* goroutine is at a read or a write of it, and every step that changes the
\* map is taken while a goroutine holds the lock exclusively.
C28_MapWritesExclusive ==
    /\ [](\A g, h \in Goroutines :
             (g # h /\ WritesMap(g)) => ~(ReadsMap(h) \/ WritesMap(h)))
    /\ [][cache' # cache => rwmu.writer # {}]_vars
====
